---- MODULE Spec2Model ----
(***************************************************************************)
(* A model of the IEC-104 session engine of pydatacoll                     *)
(* (src/pydatacoll/protocols/iec104/device.py, class IEC104Device).        *)
(*                                                                         *)
(* The session runs on a single-threaded cooperative event loop.  The      *)
(* model keeps the handles the loop runs in its current iteration (ready), *)
(* the handles scheduled for the next one (soon) and the coroutines        *)
(* suspended on I/O (waiting).  A coroutine gives up control only at an    *)
(* await that really suspends: the read of the next frame, the connection  *)
(* attempt and the write drain.  A drain returns at once when the          *)
(* transport is not paused; both outcomes are modelled.  An action runs    *)
(* one callback of the loop: a coroutine from where it was resumed to its  *)
(* next suspension or its end.                                             *)
(***************************************************************************)
EXTENDS Integers, Sequences, FiniteSets, TLC

(***************************************************************************)
(* Bounds of the model.                                                    *)
(***************************************************************************)
MaxRecv == 2        \* frames the peer delivers in one run
MaxCmd == 2         \* user commands (call / ctrl) in one run
MaxConn == 2        \* connection attempts that complete in one run
MaxTaskFire == 1    \* expiries of the periodic scheduler timer in one run
MaxExpire == 1      \* expiries of T1, T2, T3 in one run
MaxSuspend == 1     \* write drains that block in one run
MaxFault == 1       \* failures in one run: peer close or reset, failed open,
                    \* wrongly numbered frame, user cancel
MaxEvents == 2      \* all of the above events together in one run
MaxFlow == 10       \* data frames the peer delivers in a run of scene "flow"

(***************************************************************************)
(* Program constants.                                                      *)
(***************************************************************************)
MaxSeq == 32767     \* largest sequence number, inc_ssn / inc_rsn
SeqMod == MaxSeq + 1
W == 8              \* IECParam.W
K == 12             \* IECParam.K
M_SP_NA_1 == 1
M_ME_NA_1 == 9
M_EP_TD_1 == 40
C_SC_NA_1 == 45
C_SE_TC_1 == 63
C_IC_NA_1 == 100
C_CI_NA_1 == 101
C_RD_NA_1 == 102
C_CS_NA_1 == 103

(***************************************************************************)
(* Frames.  fam is the frame family; u the U-frame function; typ, cause    *)
(* and se the ASDU fields the session reads; a1, a2 the sequence numbers   *)
(* in the control field (APCI1, APCI2).  wr is a history field: the frame  *)
(* object has been written to the socket at least once.                    *)
(***************************************************************************)
NoFrame == [fam |-> "-", u |-> "-", typ |-> 0, cause |-> "-", se |-> 0,
            a1 |-> 0, a2 |-> 0, wr |-> FALSE]
UFrame(u) == [NoFrame EXCEPT !.fam = "U", !.u = u]
SFrame(r) == [NoFrame EXCEPT !.fam = "S", !.a2 = r]
IFrame(typ, cause, se, a1, a2) ==
    [NoFrame EXCEPT !.fam = "I", !.typ = typ, !.cause = cause, !.se = se,
                    !.a1 = a1, !.a2 = a2]

UActs == {"STARTDT_ACT", "TESTFR_ACT"}
UCons == {"STARTDT_CON", "TESTFR_CON", "STOPDT_CON"}
UKinds == {"STARTDT_ACT", "STARTDT_CON", "TESTFR_ACT", "TESTFR_CON",
           "STOPDT_ACT", "STOPDT_CON"}

\* The frame as it is kept in send_list: the sequence numbers of a queued
\* frame are never read (send_frame stamps them again before each write).
Queued(f, written) == [f EXCEPT !.a1 = 0, !.a2 = 0, !.wr = written]

\* what identifies a frame of send_list
Kind(f) == <<f.fam, f.u, f.typ, f.se>>
NoHist == [pushed |-> <<>>, popped |-> 0, cycles |-> 0]

(***************************************************************************)
(* Tasks: coroutines and timer callbacks.  kind names the coroutine, pc    *)
(* its position, ret the continuation after the send_frame it called, c    *)
(* the connection it waits on, fr the frame it received, sf and chk the    *)
(* arguments of the send_frame call in progress, res the outcome of the    *)
(* await that woke it.                                                     *)
(***************************************************************************)
NoTask == [kind |-> "none", pc |-> "-", ret |-> "-", c |-> 0, fr |-> NoFrame,
           sf |-> NoFrame, chk |-> FALSE, res |-> "-"]
Task(kind, pc) == [NoTask EXCEPT !.kind = kind, !.pc = pc]
TimerItem(id) == Task("timer", id)

VARIABLES
    \* fields of IEC104Device
    ssn, rsn, k, w, send_list, last_call_all_time_end, connect_retry_count,
    user_canceled, writer, reconnect_handler, task_handler, connected,
    t1, t2, t3,
    \* the event loop
    ready, soon, waiting,
    \* the environment: open sockets, sockets whose read side saw EOF, the
    \* frames written on the current connection, the measurements dispatched
    socks, eofs, wire, dispatched,
    \* history: the last handler executed, I-frames accepted since the last
    \* S- or I-frame was written and the largest value that count had on
    \* this connection, the T1-expiry bookkeeping, cross-start
    ev, unacked, peak, t1_hist, crossed,
    \* history of send_list since it was last cleared: the frames appended,
    \* in order, the number of frames removed one by one, and the
    \* interrogation cycles run_task has issued since then without an
    \* advance of last_call_all_time_end
    hist,
    \* the I-frame sends completed in a run of sequential sends
    sent,
    \* the scene of the run and the budgets used so far
    scene, nrecv, ncmd, nconn, nfire, nexp, nsusp, nfault, nev,
    \* the API server: the store's keys, the requests suspended in a store
    \* call, the last answer with what its request published, and the
    \* requests begun in a bounded run
    store, reqs, out, nreq,
    \* the measurement ASDU handle_i works on and the data_pairs it collects
    asdu, data_pairs

svars == <<ssn, rsn, k, w, send_list, last_call_all_time_end,
          connect_retry_count, user_canceled, writer, reconnect_handler,
          task_handler, connected, t1, t2, t3, ready, soon, waiting,
          socks, eofs, wire, dispatched, ev, unacked, peak, t1_hist, crossed,
          hist, sent,
          scene, nrecv, ncmd, nconn, nfire, nexp, nsusp, nfault, nev>>
avars == <<store, reqs, out, nreq>>
dvars == <<asdu, data_pairs>>
vars == <<svars, avars, dvars>>

\* The state as one record, so that the code's helpers are functions on it.
St == [ssn |-> ssn, rsn |-> rsn, k |-> k, w |-> w, send_list |-> send_list,
       last_call_all_time_end |-> last_call_all_time_end,
       connect_retry_count |-> connect_retry_count,
       user_canceled |-> user_canceled, writer |-> writer,
       reconnect_handler |-> reconnect_handler,
       task_handler |-> task_handler, connected |-> connected,
       t1 |-> t1, t2 |-> t2, t3 |-> t3,
       ready |-> ready, soon |-> soon, waiting |-> waiting,
       socks |-> socks, eofs |-> eofs, wire |-> wire,
       dispatched |-> dispatched, ev |-> ev, unacked |-> unacked,
       peak |-> peak, hist |-> hist, sent |-> sent,
       t1_hist |-> t1_hist, crossed |-> crossed,
       nrecv |-> nrecv, ncmd |-> ncmd, nconn |-> nconn, nfire |-> nfire,
       nexp |-> nexp, nsusp |-> nsusp, nfault |-> nfault, nev |-> nev,
       \* the coroutine that executes, and which of its writes will block
       running |-> NoTask, orc |-> 0]

Commit(s) ==
    /\ ssn' = s.ssn /\ rsn' = s.rsn /\ k' = s.k /\ w' = s.w
    /\ send_list' = s.send_list
    /\ last_call_all_time_end' = s.last_call_all_time_end
    /\ connect_retry_count' = s.connect_retry_count
    /\ user_canceled' = s.user_canceled /\ writer' = s.writer
    /\ reconnect_handler' = s.reconnect_handler
    /\ task_handler' = s.task_handler /\ connected' = s.connected
    /\ t1' = s.t1 /\ t2' = s.t2 /\ t3' = s.t3
    /\ ready' = s.ready /\ soon' = s.soon /\ waiting' = s.waiting
    /\ socks' = s.socks /\ eofs' = s.eofs /\ wire' = s.wire
    /\ dispatched' = s.dispatched /\ ev' = s.ev /\ unacked' = s.unacked
    /\ peak' = s.peak /\ hist' = s.hist /\ sent' = s.sent
    /\ t1_hist' = s.t1_hist /\ crossed' = s.crossed
    /\ nrecv' = s.nrecv /\ ncmd' = s.ncmd /\ nconn' = s.nconn
    /\ nfire' = s.nfire /\ nexp' = s.nexp /\ nsusp' = s.nsusp
    /\ nev' = s.nev /\ scene' = scene
    /\ nfault' = s.nfault
    /\ UNCHANGED <<avars, dvars>>

(***************************************************************************)
(* The event loop.  One iteration runs the handles that were ready when   *)
(* it began; what they schedule (call_soon, a woken future) runs in the    *)
(* next iteration, in the order scheduled, followed by the I/O events and  *)
(* the timers that came due in between.  Cur is the state with the next    *)
(* handle taken.                                                           *)
(***************************************************************************)
Idle == ready = <<>>
HasActive == ready # <<>> \/ soon # <<>>
Cur == IF ready # <<>>
       THEN [St EXCEPT !.running = Head(ready), !.ready = Tail(ready)]
       ELSE [St EXCEPT !.running = Head(soon), !.ready = Tail(soon),
                       !.soon = <<>>]
At(kind, pcs) ==
    HasActive /\ Cur.running.kind = kind /\ Cur.running.pc \in pcs

Fin(s) == [s EXCEPT !.running = NoTask]
Spawn(s, t) == [s EXCEPT !.soon = Append(@, t)]
Mark(s, e) == [s EXCEPT !.ev = e]
\* await self.send_frame(frame, check); afterwards continue at ret
CallSend(s, frame, check, ret) ==
    [s EXCEPT !.running.pc = "send_frame", !.running.sf = frame,
              !.running.chk = check, !.running.ret = ret]

(***************************************************************************)
(* Timers.  A timer slot is "None", "armed" (call_later pending) or "due"  *)
(* (expired: its callback is in the ready queue and can still be           *)
(* cancelled).                                                             *)
(***************************************************************************)
DropItem(q, id) == SelectSeq(q, LAMBDA x : ~(x.kind = "timer" /\ x.pc = id))

stop_timer(s, id) ==
    [s EXCEPT ![id] = "None", !.ready = DropItem(@, id),
              !.soon = DropItem(@, id)]

start_timer(s, id) == [stop_timer(s, id) EXCEPT ![id] = "armed"]

\* a counter without the wrap
inc_plain(s) == [s EXCEPT !.ssn = s.ssn + 1]

inc_ssn(s) == [s EXCEPT !.ssn = IF s.ssn < MaxSeq THEN s.ssn + 1 ELSE 0]

inc_rsn(s) == [s EXCEPT !.rsn = IF s.rsn < MaxSeq THEN s.rsn + 1 ELSE 0]

(***************************************************************************)
(* writer.close(): the socket closes; the coroutine reading from it sees   *)
(* EOF and the coroutine suspended in its drain is released (the           *)
(* transport reports a clean connection_lost to both).                     *)
(***************************************************************************)
OnConn(s, c, pc) == {t \in s.waiting : t.c = c /\ t.pc = pc}
WokenSeq(S, res) ==
    IF S = {} THEN <<>> ELSE <<[(CHOOSE t \in S : TRUE) EXCEPT !.res = res]>>
Release(s, c, rres, dres) ==
    [s EXCEPT !.waiting = @ \ (OnConn(s, c, "read") \cup OnConn(s, c, "drain")),
              !.soon = @ \o WokenSeq(OnConn(s, c, "read"), rres)
                         \o WokenSeq(OnConn(s, c, "drain"), dres)]
close_writer(s) ==
    IF s.writer \in s.socks
    THEN [Release(s, s.writer, "eof", "ok") EXCEPT !.socks = @ \ {s.writer}]
    ELSE s

(***************************************************************************)
(* disconnect(reconnect)                                                   *)
(***************************************************************************)
disconnect_handler(s, reconnect) ==
    IF ~reconnect
    THEN [s EXCEPT !.user_canceled = TRUE,
                   !.reconnect_handler =
                       IF @ \in {"soon", "later"} THEN "cancelled" ELSE @,
                   !.ready = DropItem(@, "reconnect"),
                   !.soon = DropItem(@, "reconnect")]
    ELSE IF s.reconnect_handler = "None"
    THEN [s EXCEPT !.reconnect_handler = "later",
                   !.connect_retry_count = @ + 1]
    ELSE s

disconnect(s, reconnect) ==
    LET s1 == disconnect_handler(s, reconnect)
        s2 == stop_timer(stop_timer(stop_timer(s1, "t1"), "t2"), "t3")
        s3 == close_writer(s2)
    IN  [s3 EXCEPT !.connected = FALSE, !.ssn = 0, !.rsn = 0, !.k = 0,
                   !.w = 0, !.send_list = <<>>, !.hist = NoHist]

(***************************************************************************)
(* Time.  last_call_all_time_end is "None", "fresh" (less than             *)
(* coll_interval ago) or "elapsed" (coll_interval or more ago).            *)
(***************************************************************************)
\* a cycle that is due at once
DueAtOnce(s) == TRUE

CycleDue(s) == s.last_call_all_time_end = "elapsed"

(***************************************************************************)
(* handle_i, after the S-frame of the W threshold: lines 204-239.          *)
(***************************************************************************)
IsMeasurement(fr) ==
    \/ fr.cause \in {"spont", "introgen", "reqcogen"}
    \/ fr.cause = "req" /\ M_SP_NA_1 <= fr.typ /\ fr.typ <= M_EP_TD_1
    \/ /\ fr.cause = "actcon"
       /\ C_SC_NA_1 <= fr.typ /\ fr.typ <= C_SE_TC_1
       /\ fr.se = 0

Method(fr) == IF fr.cause = "req" THEN "call"
              ELSE IF fr.cause = "actcon" THEN "ctrl" ELSE "data"

IsSelectCon(fr) ==
    /\ fr.cause = "actcon"
    /\ C_SC_NA_1 <= fr.typ /\ fr.typ <= C_SE_TC_1
    /\ fr.se = 1

CheckTask(fr) == [Task("check_to_send", "start") EXCEPT !.fr = fr]

\* a select confirmation handled as any other confirmation
handle_i_plain(s) ==
    LET fr == s.running.fr
        s1 == IF fr.cause \in {"actcon", "req"}
              THEN Spawn(stop_timer(s, "t1"), CheckTask(fr))
              ELSE s
    IN  IF IsMeasurement(fr)
        THEN Fin([s1 EXCEPT !.dispatched = @ \cup {Method(fr)}])
        ELSE Fin(s1)

handle_i_rest(s) ==
    LET fr == s.running.fr
        \* send_data = frame: the execute frame is the received object,
        \* which the check_to_send task created before holds as well
        ex == [fr EXCEPT !.cause = "act", !.se = 0]
        held == IF ~IsMeasurement(fr) /\ IsSelectCon(fr) THEN ex ELSE fr
        s1 == IF fr.cause \in {"actcon", "req"}
              THEN Spawn(stop_timer(s, "t1"), CheckTask(held))
              ELSE s
    IN  IF IsMeasurement(fr)
        THEN Fin([s1 EXCEPT !.dispatched = @ \cup {Method(fr)}])
        ELSE IF fr.cause = "actcon"
        THEN IF IsSelectCon(fr) THEN CallSend(s1, ex, TRUE, "done")
             ELSE Fin(s1)
        ELSE IF fr.cause = "actterm"
        THEN IF fr.typ = C_CI_NA_1
             THEN Fin([s1 EXCEPT !.last_call_all_time_end = "fresh",
                                 !.hist.cycles = 0])
             ELSE Fin(s1)
        ELSE Fin(s1)

\* an acknowledgement one frame late
handle_i_late(s) ==
    LET s1 == start_timer(s, "t2")
    IN  IF s1.w > W THEN CallSend(s1, SFrame(s1.rsn), TRUE, "hi_rest")
        ELSE handle_i_rest(s1)

\* an acceptance that does not start T2
handle_i_untimed(s) ==
    IF s.w >= W THEN CallSend(s, SFrame(s.rsn), TRUE, "hi_rest")
    ELSE handle_i_rest(s)

handle_i(s) ==
    LET s1 == start_timer(s, "t2")
    IN  IF s1.w >= W THEN CallSend(s1, SFrame(s1.rsn), TRUE, "hi_rest")
        ELSE handle_i_rest(s1)

(***************************************************************************)
(* handle_i, the loop over the data elements of a measurement ASDU, lines  *)
(* 211-221.  An element is its quality bit IV, its own Address (read when  *)
(* SQ = 0) and its Value; idx is the loop's counter.  The time stamp of a  *)
(* pair is left out.                                                       *)
(***************************************************************************)
NoAsdu == [sq |-> 0, start |-> 0, data |-> <<>>, handled |-> TRUE]

RECURSIVE Collect(_, _, _)
Collect(a, data, idx) ==
    IF data = <<>> THEN {}
    ELSE IF Head(data).iv # 0 THEN Collect(a, Tail(data), idx)
    ELSE {<<IF a.sq = 0 THEN Head(data).addr ELSE a.start + idx,
            Head(data).value>>}
         \cup Collect(a, Tail(data), idx + 1)

(***************************************************************************)
(* run_task: the re-arming of the periodic timer, lines 334-338.           *)
(***************************************************************************)
run_task_arm(s) ==
    Fin([s EXCEPT !.task_handler = "armed", !.ready = DropItem(@, "task"),
                  !.soon = DropItem(@, "task")])

run_task(s) ==
    LET s1 == [s EXCEPT !.last_call_all_time_end =
                            IF @ = "None" THEN "fresh" ELSE @]
    IN  IF CycleDue(s1)
        THEN CallSend([s1 EXCEPT !.hist.cycles = @ + 1],
                      IFrame(C_CS_NA_1, "act", 0, s1.ssn, s1.rsn), TRUE,
                      "rt2")
        ELSE run_task_arm(s1)

(***************************************************************************)
(* The code that follows an awaited send_frame, by call site.              *)
(***************************************************************************)
Return(s) ==
    LET ret == s.running.ret
    IN  IF ret = "hu_start"
        THEN Fin(Spawn(Spawn(s, Task("run_task", "start")),
                       CheckTask(s.running.fr)))
        ELSE IF ret = "hu_stop" THEN Fin(disconnect(s, FALSE))
        ELSE IF ret = "hi_rest" THEN handle_i_rest(s)
        ELSE IF ret = "rt2"
        THEN CallSend(s, IFrame(C_IC_NA_1, "act", 0, s.ssn, s.rsn), TRUE,
                      "rt3")
        ELSE IF ret = "rt3"
        THEN CallSend(s, IFrame(C_CI_NA_1, "act", 0, s.ssn, s.rsn), TRUE,
                      "rt_arm")
        ELSE IF ret = "rt_arm" THEN run_task_arm(s)
        ELSE Fin(s)

(***************************************************************************)
(* send_frame(frame, check), lines 246-302.                                *)
(***************************************************************************)
IsAct(f) == \/ f.fam = "U" /\ f.u \in UActs
            \/ f.fam = "I" /\ f.cause = "act"

\* the frame is written now (lines 253, 263, 275)
Gate(s, f, check) ==
    \/ f.fam = "S"
    \/ f.fam = "U" /\ (~check \/ s.send_list = <<>>)
    \/ f.fam = "I" /\ (~check \/ s.send_list = <<>> \/ f.cause # "act")

Stamp(s, f) ==
    IF f.fam = "S" THEN [f EXCEPT !.a2 = s.rsn]
    ELSE IF f.fam = "I" THEN [f EXCEPT !.a1 = s.ssn, !.a2 = s.rsn]
    ELSE f

\* up to writer.write: stop T2, stamp, write
BeforeDrain(s, f, check) ==
    LET s1 == IF f.fam \in {"S", "I"} THEN stop_timer(s, "t2") ELSE s
    IN  IF s1.writer \notin s1.socks THEN s1
        ELSE [s1 EXCEPT
                !.wire = Append(@, [Stamp(s1, f) EXCEPT !.wr = TRUE]),
                !.unacked = IF f.fam \in {"S", "I"} THEN 0 ELSE @,
                !.send_list = IF ~check /\ @ # <<>>
                              THEN [@ EXCEPT ![1].wr = TRUE] ELSE @]

\* after the drain: counters and T1
AfterDrain(s, f) ==
    IF f.fam = "S" THEN [s EXCEPT !.w = 0]
    ELSE IF f.fam = "U"
    THEN IF f.u \in UActs THEN start_timer(s, "t1") ELSE s
    ELSE LET s1 == [inc_ssn(s) EXCEPT !.k = @ + 1, !.w = 0]
         IN  IF f.cause = "act" THEN start_timer(s1, "t1") ELSE s1

Enqueue(s, f, check, written) ==
    IF check /\ IsAct(f)
    THEN [s EXCEPT !.send_list = Append(@, Queued(f, written)),
                   !.hist.pushed = Append(@, Kind(f))]
    ELSE s

\* a task is suspended in the drain of this writer: the transport is paused
Paused(s) == OnConn(s, s.writer, "drain") # {}

\* the call runs to its end without suspending
send_frame(s) ==
    LET f == s.running.sf
        check == s.running.chk
    IN  IF ~Gate(s, f, check) THEN Return(Enqueue(s, f, check, FALSE))
        ELSE IF s.writer \notin s.socks \/ Paused(s)
        THEN Return(disconnect(BeforeDrain(s, f, check), TRUE))
        ELSE Return(Enqueue(AfterDrain(BeforeDrain(s, f, check), f),
                            f, check, TRUE))

\* the call suspends in writer.drain()
send_frame_suspend(s) ==
    LET f == s.running.sf
        s1 == BeforeDrain(s, f, s.running.chk)
    IN  [s1 EXCEPT !.waiting = @ \cup {[s.running EXCEPT !.pc = "drain",
                                                         !.c = s.writer]},
                   !.running = NoTask, !.nsusp = @ + 1, !.orc = 0]

\* the drain returns, or raises
send_frame_resume(s) ==
    LET f == s.running.sf
    IN  IF s.running.res = "ok"
        THEN Return(Enqueue(AfterDrain(s, f), f, s.running.chk, TRUE))
        ELSE Return(disconnect(s, TRUE))

(***************************************************************************)
(* check_to_send(frame), lines 304-321.                                    *)
(***************************************************************************)
Resend(s) ==
    IF s.send_list = <<>> THEN Fin(s)
    ELSE CallSend(s, Head(s.send_list), FALSE, "done")

\* a removal at the wrong end
PopRight(s) ==
    [s EXCEPT !.send_list = SubSeq(@, 1, Len(@) - 1), !.hist.popped = @ + 1]

\* self.send_list.popleft(), lines 167, 311, 316
PopHead(s) == [s EXCEPT !.send_list = Tail(@), !.hist.popped = @ + 1]

\* a check that matches an I-frame by its TYP only
check_by_typ(s) ==
    LET fr == s.running.fr
        s1 == stop_timer(s, "t1")
    IN  IF s1.send_list = <<>> THEN Fin(s1)
        ELSE IF fr.fam = "U" /\ fr.u \in UCons THEN Resend(PopHead(s1))
        ELSE IF fr.fam # "I" \/ Head(s1.send_list).fam # "I"
        THEN Fin(disconnect(s1, TRUE))
        ELSE IF fr.typ = Head(s1.send_list).typ
        THEN Resend(PopHead(s1))
        ELSE Fin(s1)

check_to_send(s) ==
    LET fr == s.running.fr
        s1 == stop_timer(s, "t1")
    IN  IF s1.send_list = <<>> THEN Fin(s1)
        ELSE IF fr.fam = "U" /\ fr.u \in UCons THEN Resend(PopHead(s1))
        \* frame.ASDU / send_list[0].ASDU of a U-frame: an exception
        ELSE IF fr.fam # "I" \/ Head(s1.send_list).fam # "I"
        THEN Fin(disconnect(s1, TRUE))
        ELSE IF \/ fr.typ = Head(s1.send_list).typ
                \/ fr.cause = "req" /\ Head(s1.send_list).typ = C_RD_NA_1
        THEN Resend(PopHead(s1))
        ELSE Fin(s1)

(***************************************************************************)
(* handle_u(frame), lines 160-194.                                         *)
(***************************************************************************)
DropOwn(s, u) ==
    IF s.send_list # <<>> /\ Head(s.send_list).fam = "U"
       /\ Head(s.send_list).u = u
    THEN [stop_timer(PopHead(s), "t1") EXCEPT
            !.crossed = IF u = "STARTDT_ACT" THEN TRUE ELSE @]
    ELSE s

handle_u(s) ==
    LET fr == s.running.fr
    IN  IF fr.u = "STARTDT_ACT"
        THEN CallSend(DropOwn(s, "STARTDT_ACT"), UFrame("STARTDT_CON"), TRUE,
                      "hu_start")
        ELSE IF fr.u = "STARTDT_CON"
        THEN Fin(Spawn(Spawn(s, Task("run_task", "start")), CheckTask(fr)))
        ELSE IF fr.u = "TESTFR_ACT"
        THEN CallSend(DropOwn(s, "TESTFR_ACT"), UFrame("TESTFR_CON"), TRUE,
                      "done")
        ELSE IF fr.u = "TESTFR_CON" THEN Fin(Spawn(s, CheckTask(fr)))
        ELSE IF fr.u = "STOPDT_ACT"
        THEN CallSend(s, UFrame("STOPDT_CON"), TRUE, "hu_stop")
        ELSE Fin(disconnect(stop_timer(s, "t1"), FALSE))

(***************************************************************************)
(* receive(), lines 111-158.                                               *)
(***************************************************************************)
\* except IncompleteReadError
receive_eof(s) ==
    IF s.user_canceled \/ s.reconnect_handler # "None" THEN Fin(s)
    ELSE Fin(disconnect(s, TRUE))

\* the coroutine starts: it reads from self.reader, the current connection
receive_start(s) ==
    IF s.writer = 0 \/ OnConn(s, s.writer, "read") # {}
    THEN Fin(disconnect(s, TRUE))      \* AttributeError, RuntimeError
    ELSE IF s.writer \notin s.socks \/ s.writer \in s.eofs
    THEN receive_eof(s)
    ELSE [s EXCEPT !.waiting = @ \cup {[s.running EXCEPT !.pc = "read",
                                                        !.c = s.writer]},
                   !.running = NoTask]

\* S or I: the sequence checks, lines 126-143
receive_check(s) ==
    LET fr == s.running.fr
        bad1 == s.ssn < fr.a2
        s1 == IF bad1 THEN s ELSE [s EXCEPT !.k = s.ssn - fr.a2]
        bad2 == fr.fam = "I" /\ s1.rsn # fr.a1
        s2 == IF fr.fam = "I" /\ ~bad2
              THEN [s1 EXCEPT !.rsn = @ + 1, !.w = @ + 1,
                              !.unacked = @ + 1,
                              !.peak = IF s1.unacked + 1 > @
                                       THEN s1.unacked + 1 ELSE @]
              ELSE s1
    IN  IF bad1 \/ bad2
        THEN IF s2.reconnect_handler = "None" THEN Fin(disconnect(s2, TRUE))
             ELSE Fin(s2)
        ELSE IF fr.fam = "I" THEN [s2 EXCEPT !.running.pc = "handle_i"]
        ELSE Fin(s2)

\* a frame was read, or the read failed
receive(s) ==
    IF s.running.res = "eof" THEN receive_eof(s)
    ELSE IF s.running.res = "reset" THEN Fin(disconnect(s, TRUE))
    ELSE LET s1 == Spawn(start_timer(s, "t3"), Task("receive", "start"))
         IN  IF s1.running.fr.fam = "U"
             THEN [s1 EXCEPT !.running.pc = "handle_u"]
             ELSE receive_check(s1)

(***************************************************************************)
(* reconnect(), lines 32-50.                                               *)
(***************************************************************************)
FreeId(s) ==
    CHOOSE i \in 1..(Cardinality(s.waiting) + 1) :
        \A t \in s.waiting : ~(t.kind = "reconnect" /\ t.c = i)

\* up to the await of open_connection
reconnect_start(s) ==
    [s EXCEPT !.reconnect_handler = "None", !.user_canceled = FALSE,
              !.t1_hist.phase = IF @ = "expired" THEN "attempt" ELSE @,
              !.waiting = @ \cup {[s.running EXCEPT !.pc = "open",
                                                    !.c = FreeId(s)]},
              !.running = NoTask]

\* open_connection returned (res = "ok": c is the new connection) or raised
reconnect(s) ==
    LET s0 == [s EXCEPT !.t1_hist.phase = "no"]
    IN  IF s.running.res = "ok"
        THEN CallSend(
               Spawn([s0 EXCEPT !.writer = s.running.c, !.connected = TRUE,
                                !.wire = <<>>, !.crossed = FALSE,
                                !.unacked = 0, !.peak = 0],
                     Task("receive", "start")),
               UFrame("STARTDT_ACT"), TRUE, "done")
        ELSE Fin(disconnect(s0, TRUE))

(***************************************************************************)
(* Timer callbacks, lines 98-109, and the call_soon / call_later lambdas.  *)
(***************************************************************************)
on_timer1(s) ==
    LET s1 == [s EXCEPT !.t1 = "None"]
    IN  IF s1.reconnect_handler = "None"
        THEN Fin(Spawn([s1 EXCEPT !.reconnect_handler = "soon",
                                  !.t1_hist = [phase |-> "expired",
                                           retry |-> s.connect_retry_count]],
                       TimerItem("reconnect")))
        ELSE Fin(s1)

SendTask(f) == [Task("send", "send_frame") EXCEPT !.sf = f, !.chk = TRUE,
                                                  !.ret = "done"]

on_timer2(s) == Fin(Spawn([s EXCEPT !.t2 = "None"], SendTask(SFrame(s.rsn))))

on_timer3(s) ==
    Fin(Spawn([s EXCEPT !.t3 = "None"], SendTask(UFrame("TESTFR_ACT"))))

on_task_handler(s) ==
    Fin(Spawn([s EXCEPT !.task_handler = "None"], Task("run_task", "start")))

on_reconnect_handler(s) ==
    Fin(Spawn([s EXCEPT !.reconnect_handler = "spent"],
              Task("reconnect", "start")))

(***************************************************************************)
(* The commands a user hands to the session, lines 343-353.                *)
(***************************************************************************)
prepare_call_frame(s) == IFrame(C_RD_NA_1, "act", 0, s.ssn, s.rsn)

prepare_ctrl_frame(s) == IFrame(C_SC_NA_1, "act", 1, s.ssn, s.rsn)

(***************************************************************************)
(* The peer.  It numbers its frames from what the session has accepted     *)
(* and sent, or wrongly.                                                   *)
(***************************************************************************)
PeerAsdus == {<<M_ME_NA_1, "spont", 0>>, <<M_ME_NA_1, "req", 0>>,
              <<C_SC_NA_1, "actcon", 1>>, <<C_SC_NA_1, "actcon", 0>>,
              <<C_CS_NA_1, "actcon", 0>>, <<C_CI_NA_1, "actterm", 0>>,
              <<C_SC_NA_1, "act", 0>>}
\* rightly numbered: the next sequence number, and an acknowledgement of
\* all or of none of the I-frames not yet acknowledged
PeerFrames(s) ==
    IF scene = "flow"
    THEN {IFrame(M_ME_NA_1, "spont", 0, s.rsn % SeqMod, s.ssn)}
    ELSE IF scene = "sbo"
    THEN {IFrame(d[1], d[2], d[3], s.rsn % SeqMod, s.ssn) : d \in PeerAsdus}
    ELSE {UFrame(u) : u \in UKinds}
         \cup {SFrame(a) : a \in {s.ssn, (s.ssn - s.k) % SeqMod}}
         \cup {IFrame(d[1], d[2], d[3], s.rsn % SeqMod, s.ssn) :
                   d \in PeerAsdus}
\* wrongly numbered: a sequence number or an acknowledgement one too far
PeerBadFrames(s) ==
    {SFrame((s.ssn + 1) % SeqMod),
     IFrame(M_ME_NA_1, "spont", 0, (s.rsn + 1) % SeqMod, s.ssn)}

Readers(s) == {t \in s.waiting : t.pc = "read" /\ t.c \in s.socks \ s.eofs}

Wake(s, t, u) == [s EXCEPT !.waiting = @ \ {t}, !.soon = Append(@, u)]

(***************************************************************************)
(* One callback: the coroutine runs until it suspends or ends.  orc = n    *)
(* > 0 makes the n-th write of the run block in its drain.                 *)
(***************************************************************************)
CanWrite(s) ==
    /\ Gate(s, s.running.sf, s.running.chk)
    /\ s.writer \in s.socks /\ ~Paused(s)

Step(s) ==
    LET t == s.running
    IN  IF t.pc = "send_frame"
        THEN IF CanWrite(s)
             THEN IF s.orc = 1 THEN send_frame_suspend(s)
                  ELSE send_frame([s EXCEPT !.orc = IF @ > 0 THEN @ - 1 ELSE 0])
             ELSE send_frame(s)
        ELSE IF t.pc = "drain" THEN send_frame_resume(s)
        ELSE IF t.kind = "reconnect"
        THEN IF t.pc = "start" THEN reconnect_start(s) ELSE reconnect(s)
        ELSE IF t.kind = "receive"
        THEN IF t.pc = "start" THEN receive_start(s)
             ELSE IF t.pc = "read" THEN receive(s)
             ELSE IF t.pc = "handle_u" THEN handle_u(s)
             ELSE handle_i(s)
        ELSE IF t.kind = "check_to_send" THEN check_to_send(s)
        ELSE IF t.kind = "run_task" THEN run_task(s)
        ELSE IF t.pc = "t1" THEN on_timer1(s)
        ELSE IF t.pc = "t2" THEN on_timer2(s)
        ELSE IF t.pc = "t3" THEN on_timer3(s)
        ELSE IF t.pc = "task" THEN on_task_handler(s)
        ELSE on_reconnect_handler(s)

RECURSIVE Run(_)
Run(s) == IF s.running = NoTask THEN s ELSE Run(Step(s))

Oracles == IF nsusp < MaxSuspend THEN 0..2 ELSE {0}

Exec(label) ==
    \E n \in Oracles : Commit(Mark(Run([Cur EXCEPT !.orc = n]), label))

(***************************************************************************)
(* Actions: the callbacks of the session.                                  *)
(***************************************************************************)
Reconnect ==
    \/ At("reconnect", {"start"}) /\ Exec("reconnect_start")
    \/ At("reconnect", {"open"}) /\ Exec("reconnect")

Receive ==
    \/ At("receive", {"start"}) /\ Exec("receive_start")
    \/ At("receive", {"read"}) /\ Exec("receive")

SendFrame == At("send", {"send_frame"}) /\ Exec("send_frame")

SendFrameResume ==
    /\ HasActive /\ Cur.running.pc = "drain"
    /\ Exec("send_frame_resume")

CheckToSend == At("check_to_send", {"start"}) /\ Exec("check_to_send")

RunTask == At("run_task", {"start"}) /\ Exec("run_task")

OnTimer1 == At("timer", {"t1"}) /\ Exec("on_timer1")

OnTimer2 == At("timer", {"t2"}) /\ Exec("on_timer2")

OnTimer3 == At("timer", {"t3"}) /\ Exec("on_timer3")

OnTaskHandler == At("timer", {"task"}) /\ Exec("on_task_handler")

OnReconnectHandler == At("timer", {"reconnect"}) /\ Exec("on_reconnect_handler")

(***************************************************************************)
(* The budgets of a run.  A run of scene "cold" starts at the constructed  *)
(* session, a run of another scene at an established one;                  *)
(* in scene "flow" the peer only delivers data frames and nothing fails;   *)
(* in scene "sbo" it only delivers I-frames, to the user's commands.       *)
(***************************************************************************)
Limit(c) ==
    IF c = "nrecv" THEN IF scene = "flow" THEN MaxFlow ELSE MaxRecv
    ELSE IF c = "ncmd" THEN MaxCmd
    ELSE IF scene \in {"flow", "sbo"} THEN 0
    ELSE IF c = "nfire" THEN MaxTaskFire
    ELSE IF c = "nexp" THEN MaxExpire
    ELSE MaxFault
EventLimit == IF scene = "flow" THEN MaxFlow + MaxCmd
              ELSE IF scene = "sbo" THEN MaxRecv + MaxCmd
              ELSE MaxEvents
Can(c) == St[c] < Limit(c) /\ nev < EventLimit
Count(s, c) == [s EXCEPT ![c] = @ + 1, !.nev = @ + 1]

(***************************************************************************)
(* Actions: the environment.  An event is taken between two iterations of *)
(* the loop and queues its callback behind the handles scheduled so far.   *)
(***************************************************************************)
TimerDue ==
    /\ Idle /\ Can("nexp")
    /\ \E id \in {"t1", "t2", "t3"} :
          /\ St[id] = "armed"
          /\ Commit(Mark(Spawn(Count([St EXCEPT ![id] = "due"], "nexp"),
                               TimerItem(id)),
                         "timer_due"))

TaskHandlerDue ==
    /\ Idle /\ task_handler = "armed" /\ Can("nfire")
    /\ Commit(Mark(Spawn(Count([St EXCEPT !.task_handler = "due"], "nfire"),
                         TimerItem("task")), "task_handler_due"))

ReconnectHandlerDue ==
    /\ Idle /\ reconnect_handler = "later"
    /\ Commit(Mark(Spawn([St EXCEPT !.reconnect_handler = "soon"],
                         TimerItem("reconnect")), "reconnect_handler_due"))

TimePasses ==
    /\ Idle /\ last_call_all_time_end = "fresh"
    /\ Commit(Mark([St EXCEPT !.last_call_all_time_end = "elapsed"],
                   "time_passes"))

OpenDone ==
    /\ Idle /\ nconn < MaxConn
    /\ \E t \in waiting :
          /\ t.pc = "open"
          /\ LET id == nconn + 1
                 s1 == [St EXCEPT !.nconn = id]
             IN  \/ Commit(Mark(Wake([s1 EXCEPT !.socks = @ \cup {id}], t,
                                     [t EXCEPT !.res = "ok", !.c = id]),
                                "open_done"))
                 \/ /\ Can("nfault")
                    /\ Commit(Mark(Wake(Count(s1, "nfault"), t,
                                        [t EXCEPT !.res = "fail", !.c = id]),
                                   "open_done"))

\* the transport's buffer empties: resume_writing releases the drain
ResumeWriting ==
    /\ Idle
    /\ \E t \in waiting :
          /\ t.pc = "drain" /\ t.c \in socks
          /\ Commit(Mark(Wake(St, t, [t EXCEPT !.res = "ok"]),
                         "resume_writing"))

PeerSend ==
    /\ Idle /\ Can("nrecv")
    /\ \E t \in Readers(St) :
          \/ \E f \in PeerFrames(St) :
                Commit(Mark(Wake(Count(St, "nrecv"), t,
                                 [t EXCEPT !.res = "ok", !.fr = f]),
                            "peer_send"))
          \/ /\ Can("nfault")
             /\ \E f \in PeerBadFrames(St) :
                   Commit(Mark(Wake([Count(St, "nrecv") EXCEPT
                                        !.nfault = @ + 1], t,
                                    [t EXCEPT !.res = "ok", !.fr = f]),
                               "peer_send"))

PeerClose ==
    /\ Idle /\ Can("nfault")
    /\ \E t \in Readers(St) :
          \/ Commit(Mark(Wake(Count([St EXCEPT !.eofs = @ \cup {t.c}],
                                    "nfault"), t,
                              [t EXCEPT !.res = "eof"]), "peer_eof"))
          \/ Commit(Mark(Count([Release(St, t.c, "reset", "err") EXCEPT
                                   !.socks = @ \ {t.c}], "nfault"),
                         "peer_reset"))

UserCommand ==
    /\ Idle /\ Can("ncmd")
    /\ \E f \in {prepare_call_frame(St), prepare_ctrl_frame(St)} :
          Commit(Mark(Spawn(Count(St, "ncmd"), SendTask(f)),
                      "user_command"))

UserCancel ==
    /\ Idle /\ Can("nfault") /\ ~user_canceled
    /\ Commit(Mark(disconnect(Count(St, "nfault"), FALSE), "user_cancel"))

(***************************************************************************)
(* The API server's store, api_server.py.  A hash is the fields read back  *)
(* from it, a set its members.  Every handler is a function from the store *)
(* to the store it leaves, the status it answers and the channels it       *)
(* published on; a KeyError on a missing hash ends the handler with 400    *)
(* and leaves what was written before it.                                  *)
(***************************************************************************)
DeviceIds == {"d1", "d2"}
TermIds == {"t1"}
ItemIds == {"i1", "i2"}
Codes == {1, 2}
Binds == TermIds \X ItemIds
MapKeys == DeviceIds \X Codes

NoBind == [dev |-> "-", code |-> 0]
NoMap == [term |-> "-", item |-> "-"]

NoStore ==
    [hs_device |-> {}, set_device |-> {},
     hs_term |-> [t \in TermIds |-> "-"], set_term |-> {},
     set_device_term |-> [d \in DeviceIds |-> {}],
     hs_item |-> {}, set_item |-> {},
     hs_term_item |-> [b \in Binds |-> NoBind],
     set_term_item |-> [t \in TermIds |-> {}],
     hs_mapping |-> [m \in MapKeys |-> NoMap]]

\* a request: its handler, the identifiers it names and what the exists()
\* calls of the handler answered
NoReq == [op |-> "-", dev |-> "-", term |-> "-", item |-> "-", code |-> 0,
          found |-> <<>>]

\* held: the handler returned without giving its store connection back to
\* the pool; the CRUD handlers take theirs in a with block
Res(S, status, pub) ==
    [store |-> S, status |-> status, pub |-> pub, req |-> NoReq,
     held |-> FALSE]

\* create_device, lines 221-236; found is what exists() answered
create_device(S, d, found) ==
    IF found THEN Res(S, 409, <<>>)
    ELSE Res([S EXCEPT !.hs_device = @ \cup {d}, !.set_device = @ \cup {d}],
             200, <<"DEVICE_ADD">>)

\* del_device, lines 260-292
del_device(S, d) ==
    IF d \notin S.hs_device THEN Res(S, 404, <<>>)
    ELSE LET term_list == S.set_device_term[d]
         IN  Res([S EXCEPT
                    !.hs_device = @ \ {d}, !.set_device = @ \ {d},
                    !.hs_term = [t \in TermIds |->
                                    IF t \in term_list THEN "-" ELSE @[t]],
                    !.set_term = @ \ term_list,
                    !.hs_term_item = [b \in Binds |->
                                         IF b[1] \in term_list THEN NoBind
                                         ELSE @[b]],
                    !.set_term_item = [t \in TermIds |->
                                          IF t \in term_list THEN {}
                                          ELSE @[t]],
                    !.set_device_term = [@ EXCEPT ![d] = {}],
                    !.hs_mapping = [m \in MapKeys |->
                                       IF m[1] = d THEN NoMap ELSE @[m]]],
                 200, <<"DEVICE_DEL">>)

\* update_device, lines 239-257; nd is the id of the body
update_device(S, d, nd) ==
    IF d \notin S.hs_device THEN Res(S, 404, <<>>)
    ELSE IF nd # d
    THEN LET r1 == del_device(S, d)
             r2 == create_device(r1.store, nd, nd \in r1.store.hs_device)
         IN  Res(r2.store, 200, r1.pub \o r2.pub)
    ELSE Res(S, 200, <<"DEVICE_FRESH">>)

\* create_term, lines 295-311; the channel name is the code's
create_term(S, t, d, found) ==
    IF found THEN Res(S, 409, <<>>)
    ELSE Res([S EXCEPT !.hs_term[t] = d, !.set_term = @ \cup {t},
                       !.set_device_term[d] = @ \cup {t}],
             200, <<"TERM_ADD\"">>)

\* del_term, lines 337-366
del_term(S, t) ==
    IF S.hs_term[t] = "-" THEN Res(S, 404, <<>>)
    ELSE Res([S EXCEPT
                !.hs_term[t] = "-", !.set_term = @ \ {t},
                !.set_device_term[S.hs_term[t]] = @ \ {t},
                !.set_term_item[t] = {},
                !.hs_mapping = [m \in MapKeys |->
                                   IF @[m].term = t THEN NoMap ELSE @[m]]],
             200, <<"TERM_DEL">>)

\* update_term, lines 314-334; nt and nd are the body's id and device_id
update_term(S, t, nt, nd) ==
    IF S.hs_term[t] = "-" THEN Res(S, 404, <<>>)
    ELSE IF nt # t
    THEN LET r1 == del_term(S, t)
             r2 == create_term(r1.store, nt, nd, r1.store.hs_term[nt] # "-")
         IN  Res(r2.store, 200, r1.pub \o r2.pub)
    ELSE Res([S EXCEPT !.hs_term[t] = nd], 200,
             IF nd # S.hs_term[t] THEN <<"TERM_DEL", "TERM_ADD">> ELSE <<>>)

\* create_item, lines 369-383
create_item(S, i, found) ==
    IF found THEN Res(S, 409, <<>>)
    ELSE Res([S EXCEPT !.hs_item = @ \cup {i}, !.set_item = @ \cup {i}],
             200, <<>>)

\* del_item, lines 406-439
del_item(S, i) ==
    IF i \notin S.hs_item THEN Res(S, 404, <<>>)
    ELSE Res([S EXCEPT
                !.hs_item = @ \ {i}, !.set_item = @ \ {i},
                !.set_term_item = [t \in TermIds |-> @[t] \ {i}],
                !.hs_term_item = [b \in Binds |->
                                     IF b[2] = i THEN NoBind ELSE @[b]],
                !.hs_mapping = [m \in MapKeys |->
                                   IF @[m].item = i THEN NoMap ELSE @[m]]],
             200, <<>>)

\* update_item, lines 386-403
update_item(S, i, ni) ==
    IF i \notin S.hs_item THEN Res(S, 404, <<>>)
    ELSE IF ni # i
    THEN LET r1 == del_item(S, i)
             r2 == create_item(r1.store, ni, ni \in r1.store.hs_item)
         IN  Res(r2.store, 200, r1.pub \o r2.pub)
    ELSE Res(S, 200, <<>>)

\* what the three exists() of create_term_item answer, lines 451-459
Found(S, t, i) ==
    <<S.hs_term[t] # "-", i \in S.hs_item, S.hs_term_item[<<t, i>>] # NoBind>>

\* create_term_item, lines 442-482; c is the body's protocol_code
create_term_item(S, t, i, c, found) ==
    IF ~found[1] \/ ~found[2] THEN Res(S, 404, <<>>)
    ELSE IF found[3] THEN Res(S, 409, <<>>)
    \* term_info['device_id'] of a term that is gone
    ELSE IF S.hs_term[t] = "-" THEN Res(S, 400, <<>>)
    ELSE LET d == S.hs_term[t]
             S1 == [S EXCEPT !.hs_term_item[<<t, i>>] =
                                 [dev |-> d, code |-> c],
                             !.set_term_item[t] = @ \cup {i}]
             S2 == [S1 EXCEPT
                      !.hs_mapping =
                          [m \in MapKeys |->
                              IF m = <<d, c>>
                              THEN [term |-> t, item |-> i]
                              ELSE IF @[m] = [term |-> t, item |-> i]
                              THEN NoMap ELSE @[m]]]
         IN  \* device_info['protocol'] of a device that does not exist
             IF d \notin S.hs_device THEN Res(S1, 400, <<>>)
             ELSE Res(S2, 200, <<"TERM_ITEM_ADD">>)

\* del_term_item, lines 504-528
del_term_item(S, t, i) ==
    IF S.hs_term_item[<<t, i>>] = NoBind THEN Res(S, 404, <<>>)
    ELSE IF S.hs_term[t] = "-" THEN Res(S, 400, <<>>)
    ELSE LET d == S.hs_term[t]
             c == S.hs_term_item[<<t, i>>].code
             S1 == [S EXCEPT !.hs_term_item[<<t, i>>] = NoBind,
                             !.set_term_item[t] = @ \ {i}]
         IN  IF d \notin S.hs_device THEN Res(S1, 400, <<"TERM_ITEM_DEL">>)
             ELSE Res([S1 EXCEPT !.hs_mapping[<<d, c>>] = NoMap],
                      200, <<"TERM_ITEM_DEL">>)

\* update_term_item, lines 485-501; same tells that the body names the
\* binding of the URL
update_term_item(S, t, i, c, same) ==
    IF S.hs_term_item[<<t, i>>] = NoBind THEN Res(S, 404, <<>>)
    ELSE IF same
    THEN LET r1 == del_term_item(S, t, i)
             r2 == create_term_item(r1.store, t, i, c, Found(r1.store, t, i))
         IN  Res(r2.store, 200, r1.pub \o r2.pub)
    ELSE Res(S, 200, <<>>)

NoOut == [op |-> "-", status |-> 0, pub |-> <<>>, req |-> NoReq,
          held |-> FALSE]

\* what the four exists() of device_call / device_ctrl answer, lines 539-548
CallFound(S, d, t, i) ==
    <<d \in S.hs_device, S.hs_term[t] # "-", i \in S.hs_item,
      S.hs_term_item[<<t, i>>] # NoBind>>

CallRes(S, status, pub, q, held) ==
    [Res(S, status, pub) EXCEPT !.req = q, !.held = held]

\* a handler that does not look for the binding
device_call_unbound(S, q, replied) ==
    IF ~q.found[1] \/ ~q.found[2] \/ ~q.found[3]
    THEN CallRes(S, 404, <<>>, q, TRUE)
    ELSE IF replied
    THEN CallRes(S, 200, <<"DEVICE_CALL", q.dev, q.term, q.item>>, q, FALSE)
    ELSE CallRes(S, 400, <<"DEVICE_CALL", q.dev, q.term, q.item>>, q, TRUE)

\* device_call, lines 531-573: the message published is the request's body;
\* replied tells that a session answered within HANDLER_TIME_OUT.  The
\* connection acquired at line 535 is released at line 566 only.
device_call(S, q, replied) ==
    IF ~q.found[1] \/ ~q.found[2] \/ ~q.found[3] \/ ~q.found[4]
    THEN CallRes(S, 404, <<>>, q, TRUE)
    ELSE IF replied
    THEN CallRes(S, 200, <<"DEVICE_CALL", q.dev, q.term, q.item>>, q, FALSE)
    ELSE CallRes(S, 400, <<"DEVICE_CALL", q.dev, q.term, q.item>>, q, TRUE)

\* device_ctrl, lines 576-618
device_ctrl(S, q, replied) ==
    IF ~q.found[1] \/ ~q.found[2] \/ ~q.found[3] \/ ~q.found[4]
    THEN CallRes(S, 404, <<>>, q, TRUE)
    ELSE IF replied
    THEN CallRes(S, 200, <<"DEVICE_CTRL", q.dev, q.term, q.item>>, q, FALSE)
    ELSE CallRes(S, 400, <<"DEVICE_CTRL", q.dev, q.term, q.item>>, q, TRUE)

(***************************************************************************)
(* The start of a run.  Cold is the state after __init__, lines 13-30.     *)
(* Started is a session in service: the handshake is over, nothing is      *)
(* pending and six I-frames have been accepted since the last              *)
(* acknowledgement.  In scene "started" the session has run for long and   *)
(* its sequence numbers are near their wrap (in scene "wrap" the next       *)
(* I-frame it sends is numbered 32767); in scene "flow" the six            *)
(* I-frames are all it has accepted.  Window is a session that has sent K  *)
(* commands, each confirmed by the peer in an I-frame whose receive number *)
(* was still 0: receive took k = ssn - 0 from each of them.                *)
(* Tested is a session in service that has sent its test frame while idle. *)
(***************************************************************************)
ZeroWith(h) ==
    /\ wire = <<>> /\ dispatched = {} /\ eofs = {} /\ hist = h
    /\ sent = 0
    /\ store = NoStore /\ reqs = <<>> /\ out = NoOut /\ nreq = 0
    /\ asdu = NoAsdu /\ data_pairs = {}
    /\ t1_hist = [phase |-> "no", retry |-> 0] /\ crossed = FALSE
    /\ nrecv = 0 /\ ncmd = 0 /\ nfire = 0
    /\ nexp = 0 /\ nsusp = 0 /\ nfault = 0 /\ nev = 0

Zero == ZeroWith(NoHist)

Cold ==
    /\ ssn = 0 /\ rsn = 0 /\ k = 0 /\ w = 0 /\ send_list = <<>>
    /\ last_call_all_time_end = "None" /\ connect_retry_count = 0
    /\ user_canceled = FALSE /\ writer = 0 /\ reconnect_handler = "soon"
    /\ task_handler = "None" /\ connected = FALSE
    /\ t1 = "None" /\ t2 = "None" /\ t3 = "None"
    /\ ready = <<>> /\ soon = <<TimerItem("reconnect")>> /\ waiting = {}
    /\ socks = {} /\ nconn = 0 /\ unacked = 0 /\ peak = 0 /\ ev = "init"

Started(s0, r0) ==
    /\ ssn = s0 /\ rsn = r0 /\ k = 0 /\ w = 6
    /\ send_list = <<>>
    /\ last_call_all_time_end = "fresh" /\ connect_retry_count = 0
    /\ user_canceled = FALSE /\ writer = 1 /\ reconnect_handler = "None"
    /\ task_handler = "armed" /\ connected = TRUE
    /\ t1 = "None" /\ t2 = "armed" /\ t3 = "armed"
    /\ ready = <<>> /\ soon = <<>>
    /\ waiting = {[Task("receive", "read") EXCEPT !.c = 1]}
    /\ socks = {1} /\ nconn = 1 /\ unacked = 6 /\ ev = "init"

Window ==
    /\ ssn = K /\ rsn = K /\ k = K /\ w = 1
    /\ send_list = <<>>
    /\ last_call_all_time_end = "fresh" /\ connect_retry_count = 0
    /\ user_canceled = FALSE /\ writer = 1 /\ reconnect_handler = "None"
    /\ task_handler = "armed" /\ connected = TRUE
    /\ t1 = "None" /\ t2 = "armed" /\ t3 = "armed"
    /\ ready = <<>> /\ soon = <<>>
    /\ waiting = {[Task("receive", "read") EXCEPT !.c = 1]}
    /\ socks = {1} /\ nconn = 1 /\ unacked = 1 /\ ev = "init"

\* T2 and then T3 have expired: the S-frame and the TESTFR_ACT are written,
\* and a read command of the user waits behind the TESTFR_ACT
Tested ==
    /\ ssn = 0 /\ rsn = 6 /\ k = 0 /\ w = 0
    /\ send_list = <<Queued(UFrame("TESTFR_ACT"), TRUE),
                     Queued(IFrame(C_RD_NA_1, "act", 0, 0, 0), FALSE)>>
    /\ last_call_all_time_end = "fresh" /\ connect_retry_count = 0
    /\ user_canceled = FALSE /\ writer = 1 /\ reconnect_handler = "None"
    /\ task_handler = "armed" /\ connected = TRUE
    /\ t1 = "armed" /\ t2 = "None" /\ t3 = "None"
    /\ ready = <<>> /\ soon = <<>>
    /\ waiting = {[Task("receive", "read") EXCEPT !.c = 1]}
    /\ socks = {1} /\ nconn = 1 /\ unacked = 0 /\ ev = "init"

TestedHist ==
    [NoHist EXCEPT !.pushed = <<Kind(UFrame("TESTFR_ACT")),
                                Kind(IFrame(C_RD_NA_1, "act", 0, 0, 0))>>]

Init ==
    \/ /\ ZeroWith(TestedHist)
       /\ scene = "test" /\ Tested /\ peak = 6
    \/ /\ Zero
       /\ \/ scene = "cold" /\ Cold
          \/ scene = "started" /\ Started(MaxSeq - 1, MaxSeq - 1) /\ peak = W
          \/ scene = "flow" /\ Started(0, 6) /\ peak = 6
          \/ scene = "window" /\ Window /\ peak = 1
          \/ scene = "sbo" /\ Started(0, 6) /\ peak = 6
          \/ scene = "wrap" /\ Started(MaxSeq, 6) /\ peak = 6

Next ==
    \/ Reconnect \/ Receive \/ SendFrame \/ SendFrameResume
    \/ CheckToSend \/ RunTask
    \/ OnTimer1 \/ OnTimer2 \/ OnTimer3 \/ OnTaskHandler \/ OnReconnectHandler
    \/ TimerDue \/ TaskHandlerDue \/ ReconnectHandlerDue \/ TimePasses
    \/ OpenDone \/ ResumeWriting \/ PeerSend \/ PeerClose
    \/ UserCommand \/ UserCancel

Spec == Init /\ [][Next]_vars

(***************************************************************************)
(* Progress.  The loop runs every handle that is scheduled, and a timer    *)
(* that stays armed expires: T2 does so here whatever the budget of the    *)
(* run, so that a run does not end with T2 armed.  A handle at the head of *)
(* the queue can always run (HasActive is the enabling condition of        *)
(* Callbacks), so the first fairness condition is WF_vars(Callbacks),      *)
(* written with that condition in the place of ENABLED.                    *)
(***************************************************************************)
T2Expires ==
    /\ Idle /\ t2 = "armed"
    /\ Commit(Mark(Spawn([St EXCEPT !.t2 = "due"], TimerItem("t2")),
                   "timer_due"))

Callbacks ==
    \/ Reconnect \/ Receive \/ SendFrame \/ SendFrameResume
    \/ CheckToSend \/ RunTask
    \/ OnTimer1 \/ OnTimer2 \/ OnTimer3 \/ OnTaskHandler \/ OnReconnectHandler

LiveInit == Init /\ scene \in {"cold", "started"}

LiveNext == Next \/ T2Expires

LiveSpec ==
    /\ LiveInit /\ [][LiveNext]_vars
    /\ ([]<>~HasActive \/ []<><<Callbacks>>_vars)
    /\ WF_vars(T2Expires)

(***************************************************************************)
(* Sequential sends.  A run of scene "seq" starts at an established        *)
(* session with ssn = 0 and sends one read command after the other, each   *)
(* confirmed by the peer's read response before the next is sent.  Only    *)
(* the last frame written is kept in wire, and the history of send_list    *)
(* starts anew when send_list is empty.                                    *)
(***************************************************************************)
MaxSends == 32770

SeqInit == Zero /\ scene = "seq" /\ Started(0, 6) /\ peak = 6

LastOf(q) == IF q = <<>> THEN <<>> ELSE <<q[Len(q)]>>

SendNext ==
    /\ scene = "seq" /\ sent < MaxSends /\ send_list = <<>>
    /\ LET s0 == [St EXCEPT !.running = SendTask(prepare_call_frame(St))]
           s1 == send_frame(s0)
       IN  Commit(Mark([s1 EXCEPT !.wire = LastOf(@), !.sent = @ + 1],
                       "send_frame"))

Confirmed ==
    /\ scene = "seq" /\ send_list # <<>>
    /\ LET fr == IFrame(M_ME_NA_1, "req", 0, rsn, ssn)
           s0 == [St EXCEPT !.running = CheckTask(fr)]
           s1 == Run(check_to_send(s0))
       IN  Commit(Mark([s1 EXCEPT !.hist = IF s1.send_list = <<>>
                                           THEN NoHist ELSE @],
                       "check_to_send"))

SeqNext == SendNext \/ Confirmed

SeqSpec == SeqInit /\ [][SeqNext]_vars

(***************************************************************************)
(* Measurement frames.  A run of scene "data" hands one routed measurement *)
(* ASDU after the other to the element loop of handle_i.                   *)
(***************************************************************************)
MaxElems == 3

Elems == [iv : {0, 1}, addr : {1, 2}, value : {0, 1}]
Asdus ==
    {[sq |-> q, start |-> 100, data |-> d, handled |-> FALSE] :
        q \in {0, 1},
        d \in UNION {[1..n -> Elems] : n \in 0..MaxElems}}

ReadData ==
    /\ scene = "data" /\ asdu.handled
    /\ asdu' \in Asdus /\ data_pairs' = {}
    /\ UNCHANGED <<svars, avars>>

HandleData ==
    /\ scene = "data" /\ ~asdu.handled
    /\ asdu' = [asdu EXCEPT !.handled = TRUE]
    /\ data_pairs' = Collect(asdu, asdu.data, 0)
    /\ UNCHANGED <<svars, avars>>

DataInit == Zero /\ Started(0, 6) /\ peak = 6 /\ scene = "data"

DataNext == ReadData \/ HandleData

DataSpec == DataInit /\ [][DataNext]_vars

(***************************************************************************)
(* The API server's requests.  A request runs from the store it finds to   *)
(* its answer; in a run of scene "race" a create request may also be       *)
(* suspended in its exists() call, and what it does when the call returns  *)
(* it does with the answer it got then and the store as it is by then.     *)
(* A run of scene "api" is any sequence of completed requests.             *)
(***************************************************************************)
MaxRace == 4
MaxInflight == 2

ApiCan == scene = "api" \/ (scene = "race" /\ nreq < MaxRace)

Answer(op, r) ==
    /\ store' = r.store
    /\ out' = [op |-> op, status |-> r.status, pub |-> r.pub,
               req |-> r.req, held |-> r.held]

Now(op, r) ==
    /\ Answer(op, r)
    /\ nreq' = IF scene = "race" THEN nreq + 1 ELSE nreq
    /\ UNCHANGED <<reqs, svars, dvars>>

CanBegin == scene = "race" /\ nreq < MaxRace /\ Len(reqs) < MaxInflight

Begin(q) ==
    /\ reqs' = Append(reqs, q)
    /\ nreq' = nreq + 1
    /\ UNCHANGED <<store, out, svars, dvars>>

Drop(n) ==
    [j \in 1..(Len(reqs) - 1) |-> IF j < n THEN reqs[j] ELSE reqs[j + 1]]

End(n, r) ==
    /\ Answer(reqs[n].op, r)
    /\ reqs' = Drop(n)
    /\ UNCHANGED <<nreq, svars, dvars>>

Waiting(op) == {n \in 1..Len(reqs) : reqs[n].op = op}

CreateDevice ==
    \/ \E d \in DeviceIds :
          /\ ApiCan
          /\ Now("create_device",
                 create_device(store, d, d \in store.hs_device))
    \/ \E d \in DeviceIds :
          /\ CanBegin
          /\ Begin([NoReq EXCEPT !.op = "create_device", !.dev = d,
                                 !.found = <<d \in store.hs_device>>])
    \/ \E n \in Waiting("create_device") :
          /\ reqs # <<>>
          /\ End(n, create_device(store, reqs[n].dev, reqs[n].found[1]))

UpdateDevice ==
    \E d \in DeviceIds, nd \in DeviceIds :
        /\ ApiCan
        /\ Now("update_device", update_device(store, d, nd))

DelDevice ==
    \E d \in DeviceIds :
        /\ ApiCan
        /\ Now("del_device", del_device(store, d))

CreateTerm ==
    \/ \E t \in TermIds, d \in DeviceIds :
          /\ ApiCan
          /\ Now("create_term",
                 create_term(store, t, d, store.hs_term[t] # "-"))
    \/ \E t \in TermIds, d \in DeviceIds :
          /\ CanBegin
          /\ Begin([NoReq EXCEPT !.op = "create_term", !.term = t,
                                 !.dev = d,
                                 !.found = <<store.hs_term[t] # "-">>])
    \/ \E n \in Waiting("create_term") :
          /\ reqs # <<>>
          /\ End(n, create_term(store, reqs[n].term, reqs[n].dev,
                                reqs[n].found[1]))

UpdateTerm ==
    \E t \in TermIds, nt \in TermIds, nd \in DeviceIds :
        /\ ApiCan
        /\ Now("update_term", update_term(store, t, nt, nd))

DelTerm ==
    \E t \in TermIds :
        /\ ApiCan
        /\ Now("del_term", del_term(store, t))

CreateItem ==
    \/ \E i \in ItemIds :
          /\ ApiCan
          /\ Now("create_item", create_item(store, i, i \in store.hs_item))
    \/ \E i \in ItemIds :
          /\ CanBegin
          /\ Begin([NoReq EXCEPT !.op = "create_item", !.item = i,
                                 !.found = <<i \in store.hs_item>>])
    \/ \E n \in Waiting("create_item") :
          /\ reqs # <<>>
          /\ End(n, create_item(store, reqs[n].item, reqs[n].found[1]))

UpdateItem ==
    \E i \in ItemIds, ni \in ItemIds :
        /\ ApiCan
        /\ Now("update_item", update_item(store, i, ni))

DelItem ==
    \E i \in ItemIds :
        /\ ApiCan
        /\ Now("del_item", del_item(store, i))

CreateTermItem ==
    \/ \E t \in TermIds, i \in ItemIds, c \in Codes :
          /\ ApiCan
          /\ Now("create_term_item",
                 create_term_item(store, t, i, c, Found(store, t, i)))
    \/ \E t \in TermIds, i \in ItemIds, c \in Codes :
          /\ CanBegin
          /\ Begin([NoReq EXCEPT !.op = "create_term_item", !.term = t,
                                 !.item = i, !.code = c,
                                 !.found = Found(store, t, i)])
    \/ \E n \in Waiting("create_term_item") :
          /\ reqs # <<>>
          /\ End(n, create_term_item(store, reqs[n].term, reqs[n].item,
                                     reqs[n].code, reqs[n].found))

UpdateTermItem ==
    \E t \in TermIds, i \in ItemIds, c \in Codes, same \in BOOLEAN :
        /\ ApiCan
        /\ Now("update_term_item", update_term_item(store, t, i, c, same))

DelTermItem ==
    \E t \in TermIds, i \in ItemIds :
        /\ ApiCan
        /\ Now("del_term_item", del_term_item(store, t, i))

CallReq(op, d, t, i) ==
    [NoReq EXCEPT !.op = op, !.dev = d, !.term = t, !.item = i,
                  !.found = CallFound(store, d, t, i)]

DeviceCall ==
    \/ \E d \in DeviceIds, t \in TermIds, i \in ItemIds, replied \in BOOLEAN :
          /\ ApiCan
          /\ Now("device_call",
                 device_call(store, CallReq("device_call", d, t, i), replied))
    \/ \E d \in DeviceIds, t \in TermIds, i \in ItemIds :
          /\ CanBegin
          /\ Begin(CallReq("device_call", d, t, i))
    \/ \E n \in Waiting("device_call"), replied \in BOOLEAN :
          /\ reqs # <<>>
          /\ End(n, device_call(store, reqs[n], replied))

DeviceCtrl ==
    \/ \E d \in DeviceIds, t \in TermIds, i \in ItemIds, replied \in BOOLEAN :
          /\ ApiCan
          /\ Now("device_ctrl",
                 device_ctrl(store, CallReq("device_ctrl", d, t, i), replied))
    \/ \E d \in DeviceIds, t \in TermIds, i \in ItemIds :
          /\ CanBegin
          /\ Begin(CallReq("device_ctrl", d, t, i))
    \/ \E n \in Waiting("device_ctrl"), replied \in BOOLEAN :
          /\ reqs # <<>>
          /\ End(n, device_ctrl(store, reqs[n], replied))

ApiInit == Zero /\ Cold /\ scene \in {"api", "race"}

ApiNext ==
    \/ CreateDevice \/ UpdateDevice \/ DelDevice
    \/ CreateTerm \/ UpdateTerm \/ DelTerm
    \/ CreateItem \/ UpdateItem \/ DelItem
    \/ CreateTermItem \/ UpdateTermItem \/ DelTermItem
    \/ DeviceCall \/ DeviceCtrl

ApiSpec == ApiInit /\ [][ApiNext]_vars

(***************************************************************************)
(* Properties.  A step of a session callback is recognised by the handle   *)
(* it takes (Cur.running, read before the step) and by the label the step  *)
(* leaves in ev.                                                           *)
(***************************************************************************)
Taken(label) == HasActive /\ ev' = label
WriterOpen == writer \in socks /\ ~Paused(St)
Written(f) == [f EXCEPT !.wr = TRUE]
IWire == SelectSeq(wire, LAMBDA f : f.fam = "I")
Kinds(q) == [i \in 1..Len(q) |-> Kind(q[i])]
AllTasks ==
    waiting \cup {ready[i] : i \in 1..Len(ready)}
            \cup {soon[i] : i \in 1..Len(soon)}

\* C1: in every reachable state 0 <= ssn < 32768 and 0 <= rsn < 32768; an
\* I-frame accepted at rsn = 32767 leaves rsn = 0, an I-frame sent at
\* ssn = 32767 leaves ssn = 0.
C1_SeqRange ==
    /\ 0 <= ssn /\ ssn < SeqMod
    /\ 0 <= rsn /\ rsn < SeqMod

\* C2: when a reconnect starts after T1 expired, the session has been
\* disconnected: the old connection is closed, connect_retry_count is one
\* more than at the expiry, ssn = rsn = k = w = 0 and send_list is empty.
C2_T1ExpiryDisconnects ==
    t1_hist.phase = "attempt" =>
        /\ socks = {}
        /\ connect_retry_count = t1_hist.retry + 1
        /\ ssn = 0 /\ rsn = 0 /\ k = 0 /\ w = 0
        /\ send_list = <<>>

\* C3: once the session is cancelled by the user, no reconnect is scheduled
\* for it.
C3_CancelIsTerminal ==
    user_canceled => reconnect_handler \notin {"soon", "later"}

\* C4: the I-frames written on one connection carry consecutive send
\* sequence numbers (mod 32768), in write order.
C4_SsnConsecutive ==
    \A i \in 1..(Len(IWire) - 1) :
        IWire[i + 1].a1 = (IWire[i].a1 + 1) % SeqMod

\* C5: the send that on_timer3 starts writes exactly one TESTFR_ACT and
\* arms T1 (or is still in the drain of that write), whatever send_list
\* holds, when the connection is open.
C5_T3WritesTestfr ==
    [][(/\ Taken("send_frame")
        /\ Cur.running.sf = UFrame("TESTFR_ACT")
        /\ WriterOpen)
       => /\ wire' = Append(wire, Written(UFrame("TESTFR_ACT")))
          /\ \/ t1' = "armed"
             \/ \E t \in waiting' : t.pc = "drain" /\ t.kind = "send"]_vars

\* C6: a U-confirmation handed to check_to_send leaves send_list unchanged
\* unless the head is the U-act frame of the same kind.
UActOf(u) == IF u = "STARTDT_CON" THEN "STARTDT_ACT"
             ELSE IF u = "TESTFR_CON" THEN "TESTFR_ACT" ELSE "-"
C6_UConMatchesHead ==
    [][(/\ Taken("check_to_send")
        /\ Cur.running.fr.fam = "U" /\ Cur.running.fr.u \in UCons
        /\ send_list # <<>>
        /\ ~(/\ Head(send_list).fam = "U"
             /\ Head(send_list).u = UActOf(Cur.running.fr.u))
        /\ WriterOpen)
       => Kinds(send_list') = Kinds(send_list)]_vars

\* C7: cross-start.  When the peer's STARTDT_ACT is received while the
\* session's own written STARTDT_ACT heads send_list, exactly one
\* STARTDT_CON is written, only the own STARTDT_ACT leaves send_list and the
\* session stays connected; the peer's STARTDT_CON that follows removes
\* nothing from send_list.
C7_CrossStart ==
    [][/\ (/\ Taken("receive")
           /\ Cur.running.res = "ok"
           /\ Cur.running.fr = UFrame("STARTDT_ACT")
           /\ send_list # <<>>
           /\ Head(send_list) = Queued(UFrame("STARTDT_ACT"), TRUE)
           /\ WriterOpen)
          => /\ wire' = Append(wire, Written(UFrame("STARTDT_CON")))
             /\ Kinds(send_list') = Kinds(Tail(send_list))
             /\ connected'
       /\ (/\ Taken("check_to_send")
           /\ crossed
           /\ Cur.running.fr.fam = "U"
           /\ WriterOpen)
          => /\ Kinds(send_list') = Kinds(send_list)
             /\ connected']_vars

\* C8: on one connection the number of I-frames accepted since the last
\* S- or I-frame was written never exceeds W.
C8_WBound == peak <= W

\* C9: a received frame changes rsn, w, k or send_list only when no earlier
\* received frame is still being routed (suspended in a send it awaits).
C9_ReceiveSerial ==
    [][(/\ Taken("receive")
        /\ Cur.running.res = "ok"
        /\ \E t \in AllTasks : t.kind = "receive" /\ t.pc = "drain")
       => UNCHANGED <<rsn, w, k, send_list>>]_vars

\* C10: a received I-frame whose send sequence number differs from rsn is
\* not routed to handle_i (nothing dispatched, no check_to_send started)
\* and leaves the session disconnected with a reconnect scheduled.
C10_BadIFrameDisconnects ==
    [][(/\ Taken("receive")
        /\ Cur.running.res = "ok"
        /\ Cur.running.fr.fam = "I"
        /\ Cur.running.fr.a1 # rsn)
       => /\ dispatched' = dispatched
          /\ \A t \in AllTasks' :
                t.kind = "check_to_send" /\ t.pc = "start" => t \in AllTasks
          /\ reconnect_handler' \in {"soon", "later"}
          /\ ~connected' /\ writer' \notin socks'
          /\ ssn' = 0 /\ rsn' = 0 /\ k' = 0 /\ w' = 0]_vars

\* C11: frames leave send_list one at a time per callback and in the order
\* in which send_frame appended them: send_list is always what was appended
\* since the last clear without the frames removed so far, which are a
\* prefix of it; the only other removal is the clear in disconnect.
C11_QueueOrder ==
    /\ [](/\ hist.popped <= Len(hist.pushed)
          /\ Kinds(send_list) =
               SubSeq(hist.pushed, hist.popped + 1, Len(hist.pushed)))
    /\ [][hist'.popped <= hist.popped + 1]_vars

C11_Witness ==
    /\ hist.popped >= 1 /\ Len(send_list) >= 2
    /\ ev = "check_to_send"

\* C12: while the session is connected and started, k, the number of
\* I-frames sent and not yet acknowledged, never exceeds K = 12.
C12_KBound == connected => k <= K

\* C13: after a cold-start handshake (connection opened, STARTDT_ACT
\* written, the peer's STARTDT_CON received and handled, nothing else
\* happened) send_list is empty, T1 is not armed and task_handler is armed.
C13_Handshake ==
    [][(/\ Taken("check_to_send")
        /\ Cur.running.fr = UFrame("STARTDT_CON")
        /\ scene = "cold" /\ nev = 1 /\ nconn = 1 /\ nsusp = 0
        /\ wire = <<Written(UFrame("STARTDT_ACT"))>>)
       => (/\ send_list' = <<>>
           /\ t1' = "None"
           /\ task_handler' = "armed")]_vars

C13_Witness ==
    /\ ev = "check_to_send" /\ scene = "cold"
    /\ nev = 1 /\ nrecv = 1 /\ nconn = 1 /\ nsusp = 0
    /\ wire = <<Written(UFrame("STARTDT_ACT"))>>
    /\ hist.pushed = <<Kind(UFrame("STARTDT_ACT"))>> /\ hist.popped = 1
    /\ last_call_all_time_end = "fresh" /\ task_handler = "armed"

\* C14: when accepting an I-frame brings w to W on an open connection,
\* the callback writes exactly one S-frame, whose receive number is rsn as
\* it is after the acceptance, and w is 0 once the send is over: at the end
\* of the callback, or when the drain it is suspended in returns.
SWritten == SelectSeq(SubSeq(wire', Len(wire) + 1, Len(wire')),
                      LAMBDA f : f.fam = "S")
C14_SFrameAtW ==
    /\ [][(/\ Taken("receive")
           /\ Cur.running.res = "ok"
           /\ Cur.running.fr.fam = "I"
           /\ Cur.running.fr.a1 = rsn /\ Cur.running.fr.a2 <= ssn
           /\ w = W - 1
           /\ WriterOpen)
          => /\ SWritten = <<Written(SFrame(rsn + 1))>>
             /\ \/ w' = 0
                \/ \E t \in waiting' :
                      t.pc = "drain" /\ t.sf = SFrame(rsn + 1)]_vars
    /\ [][(/\ Taken("send_frame_resume")
           /\ Cur.running.sf.fam = "S")
          => w' = 0]_vars

C14_Witness ==
    /\ ev = "receive" /\ connected /\ scene = "flow"
    /\ nrecv = 2 /\ ncmd = 0 /\ rsn = W
    /\ wire = <<Written(SFrame(W))>>
    /\ w = 0

\* C15: select-before-operate.  With the written select frame (Cause=act,
\* SE=1) at the head of send_list, the peer's Cause=actcon, SE=1 queues the
\* execute frame (same TYP, Cause=act, SE=0) and dispatches nothing; the
\* check_to_send that follows removes the select frame and writes the
\* execute frame, once; a 'ctrl' result is dispatched only on the peer's
\* Cause=actcon, SE=0, and the check_to_send of that frame removes the
\* execute frame.
Select == IFrame(C_SC_NA_1, "act", 1, 0, 0)
Execute == IFrame(C_SC_NA_1, "act", 0, 0, 0)
IWritten == SelectSeq(SubSeq(wire', Len(wire) + 1, Len(wire')),
                      LAMBDA f : f.fam = "I")
Accepted(typ, cause, se) ==
    /\ Taken("receive") /\ Cur.running.res = "ok"
    /\ Cur.running.fr = IFrame(typ, cause, se, rsn, Cur.running.fr.a2)
    /\ Cur.running.fr.a2 <= ssn
C15_SelectBeforeOperate ==
    /\ [][(/\ Accepted(C_SC_NA_1, "actcon", 1)
           /\ send_list = <<Queued(Select, TRUE)>>
           /\ WriterOpen)
          => /\ send_list' = <<Queued(Select, TRUE), Queued(Execute, FALSE)>>
             /\ IWritten = <<>>
             /\ dispatched' = dispatched]_vars
    /\ [][(/\ Taken("check_to_send")
           /\ Kind(Cur.running.fr) = Kind(Execute)
           /\ send_list = <<Queued(Select, TRUE), Queued(Execute, FALSE)>>
           /\ WriterOpen)
          => /\ send_list' = <<Queued(Execute, TRUE)>>
             /\ IWritten = <<Written(IFrame(C_SC_NA_1, "act", 0, ssn, rsn))>>
             /\ dispatched' = dispatched]_vars
    /\ [][("ctrl" \in dispatched' \ dispatched)
          => /\ HasActive /\ Cur.running.kind = "receive"
             /\ Cur.running.fr.cause = "actcon" /\ Cur.running.fr.se = 0
             /\ Cur.running.fr.typ \in C_SC_NA_1..C_SE_TC_1]_vars
    /\ [][(/\ Taken("check_to_send")
           /\ Cur.running.fr.cause = "actcon"
           /\ Kind(Cur.running.fr) = Kind(Execute)
           /\ send_list = <<Queued(Execute, TRUE)>>)
          => send_list' = <<>>]_vars

C15_Witness ==
    /\ scene = "sbo" /\ ev = "check_to_send"
    /\ nrecv = 2 /\ ncmd = 1 /\ nsusp = 0
    /\ hist.pushed = <<Kind(Select), Kind(Execute)>> /\ hist.popped = 2
    /\ send_list = <<>>
    /\ dispatched = {"ctrl"}
    /\ Len(IWire) = 2 /\ Kind(IWire[2]) = Kind(Execute)
    /\ w = 1

\* C16: with a written C_RD_NA_1 act frame at the head of send_list, the
\* peer's I-frame with Cause=req and a measurement TYP stops T1 and is
\* dispatched with method 'call', and its check_to_send removes the head and
\* writes the next queued frame, if any (T1 then runs for that frame).  An
\* I-frame confirmation whose TYP differs from the head's TYP, and which is
\* not such a read response, removes nothing: send_list is unchanged, but
\* for the execute frame that a select confirmation appends at its tail.
ReadHead ==
    /\ send_list # <<>>
    /\ Head(send_list) = Queued(IFrame(C_RD_NA_1, "act", 0, 0, 0), TRUE)
ReadResponse(fr) ==
    /\ fr.fam = "I" /\ fr.cause = "req"
    /\ M_SP_NA_1 <= fr.typ /\ fr.typ <= M_EP_TD_1
Unmatched(fr) ==
    /\ fr.fam = "I" /\ send_list # <<>> /\ Head(send_list).fam = "I"
    /\ fr.typ # Head(send_list).typ
    /\ ~(fr.cause = "req" /\ Head(send_list).typ = C_RD_NA_1)
AcceptedCon ==
    /\ Taken("receive") /\ Cur.running.res = "ok"
    /\ Cur.running.fr.fam = "I"
    /\ Cur.running.fr.cause \in {"actcon", "req"}
    /\ Cur.running.fr.a1 = rsn /\ Cur.running.fr.a2 <= ssn
    /\ WriterOpen
C16_Response ==
    /\ [][(AcceptedCon /\ ReadHead /\ ReadResponse(Cur.running.fr))
          => /\ t1' = "None"
             /\ "call" \in dispatched'
             /\ send_list' = send_list]_vars
    /\ [][(/\ Taken("check_to_send") /\ ReadHead
           /\ ReadResponse(Cur.running.fr) /\ WriterOpen)
          => /\ Kinds(send_list') = Tail(Kinds(send_list))
             /\ \/ /\ send_list' = <<>>
                   /\ t1' = "None" /\ wire' = wire
                \/ /\ send_list' # <<>>
                   /\ Head(send_list').wr
                   /\ Len(wire') = Len(wire) + 1
                   /\ Kind(wire'[Len(wire')]) = Kind(Head(send_list'))
                   /\ \/ t1' = "armed"
                      \/ \E t \in waiting' : t.pc = "drain"]_vars
C16_Unmatched ==
    [][(Taken("check_to_send") /\ Unmatched(Cur.running.fr))
       => send_list' = send_list]_vars

C17_SsnWrap ==
    scene = "seq" =>
        /\ ssn = sent % SeqMod
        /\ sent > 0 => /\ Len(wire) = 1
                       /\ wire[1].fam = "I"
                       /\ wire[1].a1 = (sent - 1) % SeqMod

C17_Witness ==
    /\ scene = "seq" /\ sent = SeqMod /\ ssn = 0
    /\ wire # <<>> /\ wire[1].a1 = MaxSeq

\* C18: connect_retry_count is one more whenever a reconnect is scheduled
\* after a failure, and it is 0 once the peer's STARTDT_CON has confirmed
\* the session's STARTDT_ACT.
C18_Counted ==
    [][(reconnect_handler' = "later" /\ reconnect_handler # "later")
       => connect_retry_count' = connect_retry_count + 1]_vars
C18_RetryReset ==
    /\ C18_Counted
    /\ [][(/\ Taken("receive") /\ Cur.running.res = "ok"
           /\ Cur.running.fr = UFrame("STARTDT_CON")
           /\ send_list # <<>>
           /\ Head(send_list) = Queued(UFrame("STARTDT_ACT"), TRUE))
          => connect_retry_count' = 0]_vars

\* C19: in every store state left by a sequence of completed CRUD requests
\* a forward binding HS:TERM_ITEM:<term>:<item> exists if and only if a
\* reverse entry HS:MAPPING:<PROTOCOL>:<device>:<ioa> for that (term, item)
\* exists.
Bound(b) == store.hs_term_item[b] # NoBind
Mapped(b) ==
    \E m \in MapKeys : store.hs_mapping[m] = [term |-> b[1], item |-> b[2]]
C19_BindingsMapped ==
    reqs = <<>> => \A b \in Binds : Bound(b) <=> Mapped(b)

\* C20: a create request for an identifier that is already in the store
\* answers 409, changes no store key and publishes nothing, whether it runs
\* alone or completes after another create request for the same identifier
\* that ran while it waited for the reply to its exists query.
Existing(q) ==
    CASE q.op = "create_device" -> q.dev \in store.hs_device
      [] q.op = "create_term" -> store.hs_term[q.term] # "-"
      [] q.op = "create_item" -> q.item \in store.hs_item
      [] q.op = "create_term_item" -> Bound(<<q.term, q.item>>)
      [] OTHER -> FALSE
Refused(r) == r.status = 409 /\ r.store = store /\ r.pub = <<>>
C20_AloneRefused ==
    /\ \A d \in store.hs_device :
           Refused(create_device(store, d, d \in store.hs_device))
    /\ \A t \in TermIds, d \in DeviceIds :
           store.hs_term[t] # "-" =>
               Refused(create_term(store, t, d, store.hs_term[t] # "-"))
    /\ \A i \in store.hs_item :
           Refused(create_item(store, i, i \in store.hs_item))
    /\ \A b \in Binds, c \in Codes :
           Bound(b) =>
               Refused(create_term_item(store, b[1], b[2], c,
                                        Found(store, b[1], b[2])))
C20_DuplicateRefused ==
    /\ []C20_AloneRefused
    /\ [][\A n \in 1..Len(reqs) :
              reqs' = Drop(n) /\ Existing(reqs[n]) =>
                  out'.status = 409 /\ store' = store /\ out'.pub = <<>>]_vars

\* C21: a device_call or device_ctrl request that names a device, a term, an
\* item or a binding the store does not hold answers 404 and publishes
\* nothing, on CHANNEL:DEVICE_CALL and CHANNEL:DEVICE_CTRL in particular.
CallOps == {"device_call", "device_ctrl"}
Missing(q) == \E j \in 1..4 : ~q.found[j]
Rejected(o) == o.status = 404 /\ o.pub = <<>>
C21_MissingRefused ==
    /\ [](out.op \in CallOps /\ Missing(out.req) => Rejected(out))
    /\ [][/\ reqs' = reqs /\ out'.op \in CallOps =>
                 /\ out'.req.found = CallFound(store, out'.req.dev,
                                               out'.req.term, out'.req.item)
                 /\ Missing(out'.req) => Rejected(out')
          /\ \A n \in 1..Len(reqs) :
                 reqs' = Drop(n) /\ reqs[n].op \in CallOps
                     /\ Missing(reqs[n]) => Rejected(out')]_vars
C21_Witness ==
    /\ out.op = "device_call" /\ Rejected(out)
    /\ out.req.found = <<TRUE, TRUE, TRUE, FALSE>>
    /\ store.hs_device # {} /\ store.hs_item # {}

\* C22: every U-act frame received on an open connection is answered with
\* its U-con on the wire (STARTDT_ACT with STARTDT_CON, TESTFR_ACT with
\* TESTFR_CON, STOPDT_ACT with STOPDT_CON), whatever send_list holds.
UConOf(u) == IF u = "STARTDT_ACT" THEN "STARTDT_CON"
             ELSE IF u = "TESTFR_ACT" THEN "TESTFR_CON" ELSE "STOPDT_CON"
C22_UActAnswered ==
    [][(/\ Taken("receive")
        /\ Cur.running.pc = "read" /\ Cur.running.res = "ok"
        /\ Cur.running.fr.fam = "U"
        /\ Cur.running.fr.u \in {"STARTDT_ACT", "TESTFR_ACT", "STOPDT_ACT"}
        /\ WriterOpen)
       => \E i \in (Len(wire) + 1)..Len(wire') :
              wire'[i] = Written(UFrame(UConOf(Cur.running.fr.u)))]_vars

\* C23: when reconnect has opened a connection, STARTDT_ACT is the first
\* frame written on it and, once that write has returned, send_list is
\* exactly [STARTDT_ACT], T1 is armed and ssn = rsn = k = w = 0.
Opened ==
    /\ Taken("reconnect")
    /\ Cur.running.pc = "open" /\ Cur.running.res = "ok"
StartWritten ==
    /\ wire' = <<Written(UFrame("STARTDT_ACT"))>>
    /\ \/ \E t \in waiting' : t.kind = "reconnect" /\ t.pc = "drain"
       \/ /\ Kinds(send_list') = <<Kind(UFrame("STARTDT_ACT"))>>
          /\ t1' = "armed"
          /\ ssn' = 0 /\ rsn' = 0 /\ k' = 0 /\ w' = 0
C23_OpenStarts == [][Opened => StartWritten]_vars
\* C23 for the opens that do not follow a T1 expiry
C23_OpenStartsNoExpiry ==
    [][Opened /\ t1_hist.phase # "attempt" => StartWritten]_vars

\* C24: while a written act frame heads send_list, T1 stays armed until its
\* confirmation arrives: an accepted confirmation that does not match the
\* head (an I-frame of another TYP that is no read response to a read
\* command, a U-con for an I-act head) neither stops T1 nor removes the head.
Confirms(fr, h) ==
    IF h.fam = "U" THEN fr.fam = "U" /\ h.u = UActOf(fr.u)
    ELSE /\ fr.fam = "I"
         /\ \/ fr.typ = h.typ
            \/ fr.cause = "req" /\ h.typ = C_RD_NA_1
Guarded ==
    /\ send_list # <<>> /\ Head(send_list).wr
    /\ t1 = "armed" /\ WriterOpen
    /\ ~Confirms(Cur.running.fr, Head(send_list))
C24_T1UntilConfirmed ==
    [][/\ (/\ Taken("receive")
           /\ Cur.running.pc = "read" /\ Cur.running.res = "ok"
           /\ Cur.running.fr.fam = "I"
           /\ Cur.running.fr.cause \in {"actcon", "req"}
           /\ Cur.running.fr.a1 = rsn /\ Cur.running.fr.a2 <= ssn
           /\ Guarded)
          => t1' = "armed" /\ Kinds(send_list') = Kinds(send_list)
       /\ (/\ Taken("check_to_send")
           /\ Guarded)
          => t1' = "armed" /\ Kinds(send_list') = Kinds(send_list)]_vars

\* C25: while the session is cancelled no timer of it is pending (T1, T2,
\* T3, the reconnect timer, the periodic task_handler) and it writes no
\* frame.
Pending(h) == h \in {"armed", "due", "soon", "later"}
C25_CancelStopsAll ==
    /\ [](user_canceled =>
              /\ ~Pending(t1) /\ ~Pending(t2) /\ ~Pending(t3)
              /\ ~Pending(reconnect_handler)
              /\ ~Pending(task_handler))
    /\ [][user_canceled /\ user_canceled' => wire' = wire]_vars

\* C26: an S- or I-frame whose receive number acknowledges I-frames the
\* session has sent is accepted and leaves k = (ssn - receive number) mod
\* 32768, also when ssn has wrapped to a value below that receive number.
Acks(fr) == (ssn - fr.a2) % SeqMod <= k
C26_KModulo ==
    [][(/\ Taken("receive")
        /\ Cur.running.pc = "read" /\ Cur.running.res = "ok"
        /\ Cur.running.fr.fam = "S"
        /\ Acks(Cur.running.fr)
        /\ connected)
       => /\ connected'
          /\ k' = (ssn - Cur.running.fr.a2) % SeqMod]_vars

\* C27: of a measurement ASDU with SQ = 1 exactly the elements with IV = 0
\* are emitted, and the element at 0-based position i is emitted with the
\* address StartAddress + i, whether or not earlier elements were skipped.
Valid == {j \in 1..Len(asdu.data) : asdu.data[j].iv = 0}
C27_SqAddress ==
    asdu.handled /\ asdu.sq = 1 =>
        data_pairs = {<<asdu.start + (j - 1), asdu.data[j].value>> :
                          j \in Valid}

\* C28: on one connection run_task issues at most one interrogation cycle
\* (C_CS_NA_1, C_IC_NA_1, C_CI_NA_1) between two advances of
\* last_call_all_time_end, whichever of the STARTDT_ACT handler, the
\* STARTDT_CON handler and the periodic timer started it.
C28_OneCycle == hist.cycles <= 1

\* C29: when an S-frame that passes the sequence check is received (here:
\* one that acknowledges every I-frame sent), T1 is stopped and a frame
\* waiting unwritten at the head of send_list is written.
C29_SFrameDelivers ==
    [][(/\ Taken("receive")
        /\ Cur.running.pc = "read" /\ Cur.running.res = "ok"
        /\ Cur.running.fr.fam = "S" /\ Cur.running.fr.a2 = ssn
        /\ WriterOpen)
       => /\ ~Pending(t1')
          /\ send_list # <<>> /\ ~Head(send_list).wr
                 => Len(wire') > Len(wire)]_vars

\* C30: the session never has more than one open connection, nor more than
\* one receive task waiting for a frame.
C30_OneConnection ==
    /\ Cardinality(socks) <= 1
    /\ Cardinality({t \in waiting : t.kind = "receive" /\ t.pc = "read"}) <= 1

\* C31: stop-and-wait.  At any time at most one frame of send_list has been
\* written to the wire, and it is the head: no frame behind the head has
\* been written, whatever the interleaving of the send_frame calls.
C31_StopAndWait == \A i \in 2..Len(send_list) : ~send_list[i].wr

\* C32: a received frame removes a frame from send_list only if that frame
\* was written to the wire before: no queued act frame is discarded unsent,
\* also after the own TESTFR_ACT was removed on the peer's TESTFR_ACT.
C32_OnlyWrittenRemoved ==
    [][hist'.popped = hist.popped + 1 => Head(send_list).wr]_vars

\* C33: from the return of disconnect until the next successful open the
\* session is reset: ssn = rsn = k = w = 0, send_list is empty and none of
\* T1, T2, T3 is armed, also when a send_frame that was suspended in its
\* drain when disconnect ran resumes afterwards.
C33_DisconnectedIsReset ==
    ~connected =>
        /\ ssn = 0 /\ rsn = 0 /\ k = 0 /\ w = 0
        /\ send_list = <<>>
        /\ ~Pending(t1) /\ ~Pending(t2) /\ ~Pending(t3)

\* C34: every I-frame accepted by receive is eventually acknowledged (an S-
\* or I-frame is written, which carries the receive number as it is then)
\* unless the session leaves the connection first; also when the I-frame is
\* accepted while the send of an S-frame is suspended in its drain.  The
\* receive number written is rsn, one more than the sequence number of the
\* last I-frame accepted.
C34_Acknowledged ==
    /\ (connected /\ unacked > 0) ~> (unacked = 0 \/ ~connected)
    /\ [][\A i \in (Len(wire) + 1)..Len(wire') :
              wire'[i].fam \in {"S", "I"} /\ connected'
                  => wire'[i].a2 = rsn']_vars

C34_Witness ==
    /\ connected /\ unacked > 0 /\ ev = "receive"
    /\ \E t \in waiting : t.pc = "drain" /\ t.sf.fam = "S" /\ t.c = writer

\* C35: a device_call or device_ctrl request gives the store connection it
\* acquired back to the pool on every exit path (the reply, a 404, the
\* time-out, any other error): no finished request holds a connection.
C35_ConnectionReleased == out.op \in CallOps => ~out.held

\* C36: in every store state left by a sequence of completed CRUD requests
\* term t is a member of SET:DEVICE_TERM:<d> if and only if HS:TERM:<t>
\* exists with device_id = d.
C36_DeviceTerms ==
    reqs = <<>> =>
        \A t \in TermIds, d \in DeviceIds :
            t \in store.set_device_term[d] <=> store.hs_term[t] = d

\* C37: a create_term_item request that answers 400, 404 or 409 leaves the
\* store as it found it: no HS:TERM_ITEM key, SET:TERM_ITEM member or
\* HS:MAPPING key is added or removed, also when the term's device is gone.
C37_ErrorLeavesStore ==
    [][(/\ out'.op = "create_term_item"
        /\ out'.status \in {400, 404, 409})
       => store' = store]_vars

====
